---- MODULE Spec2Model ----
(***************************************************************************)
(* Model of custom_components/homematicip_local/climate.py: the climate    *)
(* adapter HaHomematicClimate (read-side getters, write-side commands)     *)
(* and the discovery callback async_add_climate of async_setup_entry.      *)
(*                                                                         *)
(* Python's None is the string "None".  An optional object (the restored   *)
(* State, an optional datetime) is a sequence of length 0 (None) or 1.     *)
(* Enum members are their member names; the platform's HVACMode and the    *)
(* library's PresetMode carry their string values in a table, so that      *)
(* HVACMode(value=...) and PresetMode(...) are real lookups.               *)
(***************************************************************************)
EXTENDS Integers, Sequences, FiniteSets, TLC

VARIABLES
    hm,              \* the device handle self._hm_entity (externally owned)
    restored_state,  \* self._restored_state: <<>> or <<State>>
    ret,             \* the value returned by the last getter read
    req,             \* the last command the platform invoked on the adapter
    calls,           \* the handle methods the adapter has called, in order
    clock,           \* datetime.now(), in minutes
    pending,         \* handles the control unit knows and has not delivered
    delivered,       \* handles passed to async_add_climate so far
    adapters,        \* HaHomematicClimate instances constructed, in order
    registered,      \* the lists passed to async_add_entities, in order
    setup_done       \* async_setup_entry has run

vars == <<hm, restored_state, ret, req, calls, clock,
          pending, delivered, adapters, registered, setup_done>>

None == "None"

\* ---------------------------------------------------------------- bounds
MaxCalls == 2
MaxClock == 2
NumHandles == 4
MaxPresets == 2

\* ------------------------------------------------------- platform strings
ATTR_TEMPERATURE == "temperature"
ATTR_CURRENT_TEMPERATURE == "current_temperature"
ATTR_CURRENT_HUMIDITY == "current_humidity"
ATTR_PRESET_MODE == "preset_mode"
STATE_UNKNOWN == "unknown"
STATE_UNAVAILABLE == "unavailable"

\* dict.get(key): the value, or None when the key is missing
AttrGet(attributes, key) ==
    IF key \in DOMAIN attributes THEN attributes[key] ELSE None

\* all dicts over the given keys, each key missing or bound to one of vals
Dicts(keys, vals) ==
    UNION {[d -> vals] : d \in SUBSET keys}

\* ------------------------------------------------------ the restore mixin
\* HaHomematicGenericRestoreEntity.is_restored: the restore state is
\* populated and is not an unknown/unavailable state.
is_restored ==
    /\ Len(restored_state) = 1
    /\ restored_state[1].state \notin {STATE_UNKNOWN, STATE_UNAVAILABLE}

\* truthiness of self._restored_state: a State object is truthy, None is not
restored_truthy == Len(restored_state) = 1

\* ------------------------------------------------- temperature / humidity
target_temperature_always_live == hm.target_temperature

target_temperature ==
    IF hm.is_valid THEN hm.target_temperature
    ELSE IF is_restored /\ restored_truthy
         THEN AttrGet(restored_state[1].attributes, ATTR_TEMPERATURE)
         ELSE None

current_temperature ==
    IF hm.is_valid THEN hm.current_temperature
    ELSE IF is_restored /\ restored_truthy
         THEN AttrGet(restored_state[1].attributes, ATTR_CURRENT_TEMPERATURE)
         ELSE None

current_humidity ==
    IF hm.is_valid THEN hm.current_humidity
    ELSE IF is_restored /\ restored_truthy
         THEN AttrGet(restored_state[1].attributes, ATTR_CURRENT_HUMIDITY)
         ELSE None

\* ------------------------------------------------------------ HVAC tables
\* hahomematic HvacMode members; OTHER_MODE stands for any member the
\* translation table has no entry for.
HmHvacMode == {"AUTO", "COOL", "HEAT", "OFF", "OTHER_MODE"}

\* hahomematic HvacAction members; OTHER_ACTION as above.
HmHvacAction == {"COOL", "HEAT", "IDLE", "OFF", "OTHER_ACTION"}

\* homeassistant HVACMode: member |-> value
HVACModeValue ==
    [OFF |-> "off", HEAT |-> "heat", COOL |-> "cool", HEAT_COOL |-> "heat_cool",
     AUTO |-> "auto", DRY |-> "dry", FAN_ONLY |-> "fan_only"]

HVACMode == DOMAIN HVACModeValue

\* HVACMode(value=v): the member whose value is v (ValueError when none)
HVACModeOf(v) ==
    IF \E m \in HVACMode : HVACModeValue[m] = v
    THEN CHOOSE m \in HVACMode : HVACModeValue[m] = v
    ELSE "ValueError"

\* the dict literal, as its items in insertion order
HM_TO_HA_HVAC_MODE_items_noninjective ==
    << <<"AUTO", "AUTO">>, <<"COOL", "HEAT">>, <<"HEAT", "HEAT">>, <<"OFF", "OFF">> >>

HM_TO_HA_HVAC_MODE_items ==
    << <<"AUTO", "AUTO">>, <<"COOL", "COOL">>, <<"HEAT", "HEAT">>, <<"OFF", "OFF">> >>

\* a dict built from items: a later item overwrites an earlier one
DictOf(items) ==
    LET keys == {items[i][1] : i \in 1..Len(items)}
        last(k) == CHOOSE i \in 1..Len(items) :
                      /\ items[i][1] = k
                      /\ \A j \in 1..Len(items) : items[j][1] = k => j <= i
    IN [k \in keys |-> items[last(k)][2]]

\* {v: k for k, v in d.items()}
Inverted(items) ==
    DictOf([i \in 1..Len(items) |-> <<items[i][2], items[i][1]>>])

HM_TO_HA_HVAC_MODE == DictOf(HM_TO_HA_HVAC_MODE_items)

HA_TO_HM_HVAC_MODE == Inverted(HM_TO_HA_HVAC_MODE_items)

HM_TO_HA_ACTION ==
    [COOL |-> "COOLING", HEAT |-> "HEATING", IDLE |-> "IDLE", OFF |-> "OFF"]

\* ----------------------------------------------------------- HVAC getters
hvac_action_gated_on_is_valid ==
    IF hm.is_valid /\ hm.hvac_action # None /\ hm.hvac_action \in DOMAIN HM_TO_HA_ACTION
    THEN HM_TO_HA_ACTION[hm.hvac_action]
    ELSE None

hvac_action ==
    IF hm.hvac_action # None /\ hm.hvac_action \in DOMAIN HM_TO_HA_ACTION
    THEN HM_TO_HA_ACTION[hm.hvac_action]
    ELSE None

hvac_mode_unmapped_falls_through ==
    IF hm.is_valid /\ hm.hvac_mode \in DOMAIN HM_TO_HA_HVAC_MODE
    THEN HM_TO_HA_HVAC_MODE[hm.hvac_mode]
    ELSE IF /\ is_restored
            /\ restored_truthy
            /\ restored_state[1].state \notin {STATE_UNKNOWN, STATE_UNAVAILABLE}
         THEN HVACModeOf(restored_state[1].state)
         ELSE None

hvac_mode ==
    IF hm.is_valid
    THEN IF hm.hvac_mode \in DOMAIN HM_TO_HA_HVAC_MODE
         THEN HM_TO_HA_HVAC_MODE[hm.hvac_mode]
         ELSE "OFF"
    ELSE IF /\ is_restored
            /\ restored_truthy
            /\ restored_state[1].state \notin {STATE_UNKNOWN, STATE_UNAVAILABLE}
         THEN HVACModeOf(restored_state[1].state)
         ELSE None

\* ---------------------------------------------------------- preset tables
\* hahomematic PresetMode (a StrEnum): member |-> value.  PARTY stands for
\* any member that is neither a platform preset nor a week profile.
PresetModeValue ==
    [AWAY |-> "away", BOOST |-> "boost", COMFORT |-> "comfort", ECO |-> "eco",
     NONE |-> "none", WEEK_PROGRAM_1 |-> "week_program_1", PARTY |-> "party"]

PresetMode == DOMAIN PresetModeValue

\* PresetMode(v): the member whose value is v (ValueError when none)
PresetModeOf(v) ==
    IF \E m \in PresetMode : PresetModeValue[m] = v
    THEN CHOOSE m \in PresetMode : PresetModeValue[m] = v
    ELSE "ValueError"

\* str(member) of a StrEnum is its value; a member equals its value
StrOf(m) == PresetModeValue[m]

\* PRESET_AWAY, PRESET_BOOST, PRESET_COMFORT, PRESET_ECO, PRESET_NONE
SUPPORTED_HA_PRESET_MODES == {"away", "boost", "comfort", "eco", "none"}

\* s.startswith(PRESET_MODE_PREFIX), PRESET_MODE_PREFIX = "week_program_",
\* over the strings of the model
StartsWithPrefix(s) == s \in {"week_program_1", "week_program_2"}

\* --------------------------------------------------------- preset getters
Range(seq) == {seq[i] : i \in 1..Len(seq)}

preset_mode_unfiltered ==
    IF hm.is_valid
    THEN StrOf(hm.preset_mode)
    ELSE IF is_restored /\ restored_truthy
         THEN AttrGet(restored_state[1].attributes, ATTR_PRESET_MODE)
         ELSE None

preset_mode ==
    IF \/ (hm.is_valid /\ StrOf(hm.preset_mode) \in SUPPORTED_HA_PRESET_MODES)
       \/ StartsWithPrefix(StrOf(hm.preset_mode))
    THEN StrOf(hm.preset_mode)
    ELSE IF is_restored /\ restored_truthy
         THEN AttrGet(restored_state[1].attributes, ATTR_PRESET_MODE)
         ELSE None

\* the loop of preset_modes over the handle's list hm_preset_modes
RECURSIVE FilterPresets(_)
FilterPresets(hm_preset_modes) ==
    IF hm_preset_modes = <<>> THEN <<>>
    ELSE LET m == Head(hm_preset_modes)
             a == IF StrOf(m) \in SUPPORTED_HA_PRESET_MODES
                  THEN <<PresetModeValue[m]>> ELSE <<>>
             b == IF StartsWithPrefix(StrOf(m))
                  THEN <<PresetModeValue[m]>> ELSE <<>>
         IN a \o b \o FilterPresets(Tail(hm_preset_modes))

preset_modes_unfiltered ==
    [i \in 1..Len(hm.preset_modes) |-> PresetModeValue[hm.preset_modes[i]]]

preset_modes == FilterPresets(hm.preset_modes)

\* ------------------------------------------------------- getter read steps
\* The platform reads a property of the adapter; nothing but ret changes.
Read(op, val) ==
    /\ ret' = [op |-> op, val |-> val]
    /\ UNCHANGED <<hm, restored_state, req, calls, clock,
                   pending, delivered, adapters, registered, setup_done>>

ReadTargetTemperature == Read("target_temperature", target_temperature)
ReadCurrentTemperature == Read("current_temperature", current_temperature)
ReadCurrentHumidity == Read("current_humidity", current_humidity)
ReadHvacAction == Read("hvac_action", hvac_action)
ReadHvacMode == Read("hvac_mode", hvac_mode)
ReadPresetMode == Read("preset_mode", preset_mode)
ReadPresetModes == Read("preset_modes", preset_modes)

\* ---------------------------------------------------------------- commands
\* A command records the request (seq flips on every invocation) and calls
\* the handle zero or more times; the handle's own state is the library's.
Command(request, newcalls) ==
    /\ Len(calls) < MaxCalls
    /\ req' = [request EXCEPT !.seq = 1 - req.seq]
    /\ calls' = newcalls
    /\ UNCHANGED <<hm, restored_state, ret, clock,
                   pending, delivered, adapters, registered, setup_done>>

async_set_hvac_mode_unchecked(p) ==
    Command([op |-> "async_set_hvac_mode", seq |-> 0, hvac_mode |-> p],
            Append(calls, [method |-> "set_hvac_mode",
                           hvac_mode |-> IF p \in DOMAIN HA_TO_HM_HVAC_MODE
                                         THEN HA_TO_HM_HVAC_MODE[p] ELSE "OFF"]))

async_set_hvac_mode(p) ==
    Command([op |-> "async_set_hvac_mode", seq |-> 0, hvac_mode |-> p],
            IF p \notin DOMAIN HA_TO_HM_HVAC_MODE
            THEN calls
            ELSE Append(calls, [method |-> "set_hvac_mode",
                                hvac_mode |-> HA_TO_HM_HVAC_MODE[p]]))

async_set_preset_mode_unchecked(p) ==
    Command([op |-> "async_set_preset_mode", seq |-> 0, preset_mode |-> p],
            IF PresetModeOf(p) = "ValueError"
            THEN calls
            ELSE Append(calls, [method |-> "set_preset_mode",
                                preset_mode |-> PresetModeOf(p)]))

async_set_preset_mode(p) ==
    Command([op |-> "async_set_preset_mode", seq |-> 0, preset_mode |-> p],
            IF p \notin Range(preset_modes)
            THEN calls
            ELSE Append(calls, [method |-> "set_preset_mode",
                                preset_mode |-> PresetModeOf(p)]))

\* timedelta(minutes=10)
AWAY_START_OFFSET == 10

async_enable_away_mode_by_calendar_plus(end, away_temperature, start) ==
    Command([op |-> "async_enable_away_mode_by_calendar", seq |-> 0,
             start |-> start, end |-> end, away_temperature |-> away_temperature],
            Append(calls, [method |-> "enable_away_mode_by_calendar",
                           start |-> IF start # <<>> THEN start[1]
                                     ELSE clock + AWAY_START_OFFSET,
                           end |-> end,
                           away_temperature |-> away_temperature]))

\* start is <<>> (None) or <<t>>; a datetime is always truthy
async_enable_away_mode_by_calendar(end, away_temperature, start) ==
    Command([op |-> "async_enable_away_mode_by_calendar", seq |-> 0,
             start |-> start, end |-> end, away_temperature |-> away_temperature],
            Append(calls, [method |-> "enable_away_mode_by_calendar",
                           start |-> IF start # <<>> THEN start[1]
                                     ELSE clock - AWAY_START_OFFSET,
                           end |-> end,
                           away_temperature |-> away_temperature]))

\* time passes
Tick ==
    /\ clock < MaxClock
    /\ clock' = clock + 1
    /\ UNCHANGED <<hm, restored_state, ret, req, calls,
                   pending, delivered, adapters, registered, setup_done>>

\* --------------------------------------------------------------- discovery
Handles == 1..NumHandles

\* a set of handles as a tuple, in ascending order
RECURSIVE TupleOf(_)
TupleOf(S) ==
    IF S = {} THEN <<>>
    ELSE LET h == CHOOSE x \in S : \A y \in S : x <= y
         IN <<h>> \o TupleOf(S \ {h})

\* [HaHomematicClimate(control_unit, hm_entity) for hm_entity in hm_entities]
NewAdapters(hm_entities) ==
    [i \in 1..Len(hm_entities) |-> [hm_entity |-> hm_entities[i]]]

async_add_climate_always_registers(hm_entities) ==
    LET entities == NewAdapters(hm_entities)
    IN /\ adapters' = adapters \o entities
       /\ registered' = Append(registered, entities)
       /\ delivered' = delivered \cup Range(hm_entities)

async_add_climate(hm_entities) ==
    LET entities == NewAdapters(hm_entities)
    IN /\ adapters' = adapters \o entities
       /\ registered' = IF entities # <<>>
                        THEN Append(registered, entities)
                        ELSE registered
       /\ delivered' = delivered \cup Range(hm_entities)

\* the library creates a device handle the platform has not seen yet
Discover(h) ==
    /\ h \notin pending \cup delivered
    /\ pending' = pending \cup {h}
    /\ UNCHANGED <<hm, restored_state, ret, req, calls, clock,
                   delivered, adapters, registered, setup_done>>

\* async_setup_entry: connect the dispatcher, then add what
\* control_unit.get_new_entities returns (every handle not yet delivered)
async_setup_entry ==
    /\ ~setup_done
    /\ setup_done' = TRUE
    /\ async_add_climate(TupleOf(pending))
    /\ pending' = {}
    /\ UNCHANGED <<hm, restored_state, ret, req, calls, clock>>

\* a 'new entities' dispatcher notification, received once connected; it
\* carries handles that have not been delivered before, possibly none
SignalNewEntities(S) ==
    /\ setup_done
    /\ S \subseteq pending
    /\ async_add_climate(TupleOf(S))
    /\ pending' = pending \ S
    /\ UNCHANGED <<hm, restored_state, ret, req, calls, clock, setup_done>>

\* ---------------------------------------------------------- initial states
\* a freshly created handle and adapter; each specification below varies
\* the fields its operations read
DefaultHm ==
    [is_valid |-> TRUE,
     target_temperature |-> None, current_temperature |-> None,
     current_humidity |-> None,
     hvac_action |-> None, hvac_mode |-> "OFF",
     preset_mode |-> "NONE", preset_modes |-> <<>>]

\* the restore store: nothing saved (<<>>), or the last saved State
RestoredStates(states, attributes) ==
    {<<>>} \cup {<<[state |-> st, attributes |-> a]>> : st \in states, a \in attributes}

InitRest ==
    /\ ret = [op |-> "none", val |-> None]
    /\ req = [op |-> "none", seq |-> 0]
    /\ calls = <<>>
    /\ clock = 0
    /\ pending = {}
    /\ delivered = {}
    /\ adapters = <<>>
    /\ registered = <<>>
    /\ setup_done = FALSE

\* --- temperature and humidity getters
LiveValues == {None, "20.5"}

InitTemp ==
    /\ \E v \in BOOLEAN, t \in LiveValues, c \in LiveValues, u \in LiveValues :
          hm = [DefaultHm EXCEPT !.is_valid = v, !.target_temperature = t,
                                 !.current_temperature = c, !.current_humidity = u]
    /\ restored_state \in
          RestoredStates({"heat", STATE_UNKNOWN, STATE_UNAVAILABLE},
                         Dicts({ATTR_TEMPERATURE, ATTR_CURRENT_TEMPERATURE,
                                ATTR_CURRENT_HUMIDITY}, {"21.0"}))
    /\ InitRest

NextTemp ==
    \/ ReadTargetTemperature
    \/ ReadCurrentTemperature
    \/ ReadCurrentHumidity

SpecTemp == InitTemp /\ [][NextTemp]_vars

\* --- HVAC mode and action
InitHvac ==
    /\ \E v \in BOOLEAN, m \in HmHvacMode, a \in HmHvacAction \cup {None} :
          hm = [DefaultHm EXCEPT !.is_valid = v, !.hvac_mode = m, !.hvac_action = a]
    /\ restored_state \in
          RestoredStates({"heat", "off", STATE_UNKNOWN, STATE_UNAVAILABLE},
                         {[x \in {} |-> None]})
    /\ InitRest

NextHvac ==
    \/ ReadHvacAction
    \/ ReadHvacMode
    \/ \E p \in HVACMode : async_set_hvac_mode(p)

SpecHvac == InitHvac /\ [][NextHvac]_vars

\* --- preset mode
PresetModeOrder ==
    <<"AWAY", "BOOST", "COMFORT", "ECO", "NONE", "WEEK_PROGRAM_1", "PARTY">>

\* the handle's preset_modes: at most MaxPresets members, in enum order
HmPresetLists ==
    {SelectSeq(PresetModeOrder, LAMBDA m : m \in S) :
        S \in {T \in SUBSET PresetMode : Cardinality(T) <= MaxPresets}}

RequestedPresets == {"boost", "none", "week_program_1", "week_program_2", "party", "manual"}

InitPreset ==
    /\ \E v \in BOOLEAN, m \in PresetMode, l \in HmPresetLists :
          hm = [DefaultHm EXCEPT !.is_valid = v, !.preset_mode = m, !.preset_modes = l]
    /\ restored_state \in
          RestoredStates({"heat", STATE_UNKNOWN},
                         Dicts({ATTR_PRESET_MODE}, {"boost", "party"}))
    /\ InitRest

NextPreset ==
    \/ ReadPresetMode
    \/ ReadPresetModes
    \/ \E p \in RequestedPresets : async_set_preset_mode(p)

SpecPreset == InitPreset /\ [][NextPreset]_vars

\* --- away mode by calendar
AwayEnds == {100, 200}
AwayTemperatures == {"18.0", "5.0"}
AwayStarts == {<<>>, <<50>>, <<60>>}

InitAway ==
    /\ hm = DefaultHm
    /\ restored_state = <<>>
    /\ InitRest

NextAway ==
    \/ Tick
    \/ \E e \in AwayEnds, t \in AwayTemperatures, st \in AwayStarts :
          async_enable_away_mode_by_calendar(e, t, st)

SpecAway == InitAway /\ [][NextAway]_vars

\* --- discovery
InitDiscovery ==
    /\ hm = DefaultHm
    /\ restored_state = <<>>
    /\ InitRest

NextDiscovery ==
    \/ \E h \in Handles : Discover(h)
    \/ async_setup_entry
    \/ \E S \in SUBSET Handles : SignalNewEntities(S)

SpecDiscovery == InitDiscovery /\ [][NextDiscovery]_vars

\* --- everything together, on one default device
Init == InitAway

Next ==
    \/ NextTemp
    \/ NextHvac
    \/ NextPreset
    \/ NextAway
    \/ NextDiscovery

Spec == Init /\ [][Next]_vars

\* ------------------------------------------------------------- properties
\* the restore state is populated and its state is a known one
KnownSnapshot ==
    /\ Len(restored_state) = 1
    /\ restored_state[1].state \notin {"unknown", "unavailable"}

SnapshotAttr(key) == AttrGet(restored_state[1].attributes, key)

\* live when valid, else the known snapshot's attribute, else absent
Fallback(live, key) ==
    IF hm.is_valid THEN live
    ELSE IF KnownSnapshot THEN SnapshotAttr(key) ELSE None

\* away, boost, comfort, eco, none, or a custom-profile value
StandardOrProfile(s) ==
    \/ s \in {"away", "boost", "comfort", "eco", "none"}
    \/ s \in {"week_program_1", "week_program_2"}

\* C1: target_temperature, current_temperature and current_humidity return
\* the handle's live value when the handle is valid, otherwise the known
\* restored snapshot's attribute, otherwise absent; a live value is never
\* returned while the handle is invalid.
C1_TemperatureFallback ==
    /\ ret.op = "target_temperature" =>
          /\ ret.val = Fallback(hm.target_temperature, "temperature")
          /\ (~hm.is_valid /\ hm.target_temperature # None
                 => ret.val # hm.target_temperature)
    /\ ret.op = "current_temperature" =>
          /\ ret.val = Fallback(hm.current_temperature, "current_temperature")
          /\ (~hm.is_valid /\ hm.current_temperature # None
                 => ret.val # hm.current_temperature)
    /\ ret.op = "current_humidity" =>
          /\ ret.val = Fallback(hm.current_humidity, "current_humidity")
          /\ (~hm.is_valid /\ hm.current_humidity # None
                 => ret.val # hm.current_humidity)

C1_Witness ==
    /\ ret.op = "target_temperature"
    /\ ~hm.is_valid
    /\ hm.target_temperature = "20.5"
    /\ KnownSnapshot
    /\ ret.val = "21.0"

\* C2: with an invalid handle and a known restored snapshot, preset_mode
\* returns the snapshot's preset-mode attribute whatever preset the handle
\* itself holds.
C2_PresetFromSnapshotWhenInvalid ==
    (ret.op = "preset_mode" /\ ~hm.is_valid /\ KnownSnapshot)
        => ret.val = SnapshotAttr("preset_mode")

\* C3 (as claimed): with an invalid handle, hvac_action returns absent
\* whatever action the handle holds.
C3_ActionAbsentWhenInvalid ==
    (ret.op = "hvac_action" /\ ~hm.is_valid) => ret.val = None

\* C3 (amended): with an invalid handle, hvac_action is still read live: the
\* mapped action when the handle's action has an entry in HM_TO_HA_ACTION,
\* absent otherwise, with or without a restored snapshot.
C3_ActionReadLiveWhenInvalid ==
    (ret.op = "hvac_action" /\ ~hm.is_valid) =>
        ret.val = CASE hm.hvac_action = "COOL" -> "COOLING"
                    [] hm.hvac_action = "HEAT" -> "HEATING"
                    [] hm.hvac_action = "IDLE" -> "IDLE"
                    [] hm.hvac_action = "OFF" -> "OFF"
                    [] OTHER -> None

C3_Witness ==
    /\ ret.op = "hvac_action"
    /\ ~hm.is_valid
    /\ KnownSnapshot
    /\ hm.hvac_action = "HEAT"
    /\ ret.val = "HEATING"

\* C4 (as claimed): preset_mode returns absent, a platform-standard preset
\* or a custom-profile value, and every element of preset_modes is one of
\* the latter two; nothing else from the device or the snapshot is surfaced.
C4_OnlyStandardOrProfileSurfaced ==
    /\ ret.op = "preset_mode" => (ret.val = None \/ StandardOrProfile(ret.val))
    /\ ret.op = "preset_modes" =>
          \A i \in 1..Len(ret.val) : StandardOrProfile(ret.val[i])

\* C4 (amended): every element of preset_modes is a platform-standard preset
\* or a custom-profile value; preset_mode returns absent, such a value, or
\* the restored snapshot's preset-mode attribute, which passes unfiltered.
C4_DevicePresetsFiltered ==
    /\ ret.op = "preset_mode" =>
          \/ ret.val = None
          \/ StandardOrProfile(ret.val)
          \/ (Len(restored_state) = 1 /\ ret.val = SnapshotAttr("preset_mode"))
    /\ ret.op = "preset_modes" =>
          \A i \in 1..Len(ret.val) : StandardOrProfile(ret.val[i])

C4_Witness ==
    /\ ret.op = "preset_mode"
    /\ hm.is_valid
    /\ hm.preset_mode = "PARTY"
    /\ ret.val = None

\* C5: async_set_hvac_mode makes no handle call for a platform mode without
\* an entry in HA_TO_HM_HVAC_MODE, and exactly one set_hvac_mode call, with
\* the mapped library mode, for a mode with an entry.
C5_SetHvacMode ==
    [][(req' # req /\ req'.op = "async_set_hvac_mode") =>
          IF req'.hvac_mode \in DOMAIN HA_TO_HM_HVAC_MODE
          THEN calls' = Append(calls, [method |-> "set_hvac_mode",
                                       hvac_mode |-> HA_TO_HM_HVAC_MODE[req'.hvac_mode]])
          ELSE calls' = calls]_vars

C5_Witness ==
    /\ req.op = "async_set_hvac_mode"
    /\ req.hvac_mode = "HEAT_COOL"
    /\ Len(calls) = 1
    /\ calls[1] = [method |-> "set_hvac_mode", hvac_mode |-> "HEAT"]

\* C6: async_set_preset_mode makes no handle call for a preset outside the
\* filtered list computed from the handle's preset_modes at call time; an
\* accepted request makes exactly one set_preset_mode call, with a member
\* the handle advertises whose value is the requested, standard or
\* custom-profile preset.
C6_SetPresetMode ==
    [][(req' # req /\ req'.op = "async_set_preset_mode") =>
          LET p == req'.preset_mode
              advertised == {m \in Range(hm.preset_modes) :
                                StandardOrProfile(PresetModeValue[m])}
          IN IF p \notin {PresetModeValue[m] : m \in advertised}
             THEN calls' = calls
             ELSE \E m \in advertised :
                     /\ PresetModeValue[m] = p
                     /\ calls' = Append(calls, [method |-> "set_preset_mode",
                                                preset_mode |-> m])]_vars

C6_Witness ==
    /\ req.op = "async_set_preset_mode"
    /\ req.preset_mode = "party"
    /\ "PARTY" \in Range(hm.preset_modes)
    /\ Len(calls) = 1
    /\ calls[1] = [method |-> "set_preset_mode", preset_mode |-> "WEEK_PROGRAM_1"]

\* C7: every delivered handle has exactly one adapter, registered exactly
\* once; no handle ever has two adapters; no empty list is registered.
AdapterCount(h) ==
    Cardinality({i \in 1..Len(adapters) : adapters[i].hm_entity = h})

RegisteredCount(h) ==
    Cardinality({ij \in (1..Len(registered)) \X (1..NumHandles) :
                    /\ ij[2] <= Len(registered[ij[1]])
                    /\ registered[ij[1]][ij[2]].hm_entity = h})

C7_OneAdapterPerHandle ==
    /\ \A h \in Handles :
          /\ AdapterCount(h) <= 1
          /\ AdapterCount(h) = (IF h \in delivered THEN 1 ELSE 0)
          /\ RegisteredCount(h) = (IF h \in delivered THEN 1 ELSE 0)
    /\ \A i \in 1..Len(registered) : registered[i] # <<>>

C7_Witness ==
    /\ setup_done
    /\ Len(registered) >= 2
    /\ Cardinality(delivered) >= 3
    /\ pending = {}

\* C8: the HVAC mode tables round-trip in both directions, on the tables
\* and on what the hvac_mode getter and async_set_hvac_mode produce.
C8_HvacModeRoundTrip ==
    /\ \A m \in DOMAIN HM_TO_HA_HVAC_MODE :
          /\ HM_TO_HA_HVAC_MODE[m] \in DOMAIN HA_TO_HM_HVAC_MODE
          /\ HA_TO_HM_HVAC_MODE[HM_TO_HA_HVAC_MODE[m]] = m
    /\ \A p \in DOMAIN HA_TO_HM_HVAC_MODE :
          /\ HA_TO_HM_HVAC_MODE[p] \in DOMAIN HM_TO_HA_HVAC_MODE
          /\ HM_TO_HA_HVAC_MODE[HA_TO_HM_HVAC_MODE[p]] = p
    /\ (ret.op = "hvac_mode" /\ hm.is_valid
            /\ hm.hvac_mode \in {"AUTO", "COOL", "HEAT", "OFF"}) =>
          /\ ret.val \in DOMAIN HA_TO_HM_HVAC_MODE
          /\ HA_TO_HM_HVAC_MODE[ret.val] = hm.hvac_mode
    /\ (req.op = "async_set_hvac_mode"
            /\ req.hvac_mode \in {"AUTO", "COOL", "HEAT", "OFF"}) =>
          /\ calls # <<>>
          /\ HM_TO_HA_HVAC_MODE[calls[Len(calls)].hvac_mode] = req.hvac_mode

C8_Witness ==
    /\ ret.op = "hvac_mode"
    /\ hm.is_valid
    /\ hm.hvac_mode = "COOL"
    /\ ret.val = "COOL"
    /\ req.op = "async_set_hvac_mode"
    /\ req.hvac_mode = "COOL"
    /\ calls[Len(calls)].hvac_mode = "COOL"

\* C9: a valid handle with an unmapped hvac_mode reads as OFF; an empty or
\* unmapped hvac_action reads as absent; an invalid handle reads as the
\* snapshot's state only when that state is known, and as absent otherwise.
C9_UnmappedFailClosed ==
    /\ (ret.op = "hvac_mode" /\ hm.is_valid
            /\ hm.hvac_mode \notin {"AUTO", "COOL", "HEAT", "OFF"})
          => ret.val = "OFF"
    /\ (ret.op = "hvac_action"
            /\ hm.hvac_action \notin {"COOL", "HEAT", "IDLE", "OFF"})
          => ret.val = None
    /\ (ret.op = "hvac_mode" /\ ~hm.is_valid) =>
          \/ ret.val = None
          \/ /\ KnownSnapshot
             /\ ret.val \in HVACMode
             /\ HVACModeValue[ret.val] = restored_state[1].state

C9_Witness ==
    /\ ret.op = "hvac_mode"
    /\ hm.is_valid
    /\ hm.hvac_mode = "OTHER_MODE"
    /\ Len(restored_state) = 1
    /\ restored_state[1].state = "heat"
    /\ ret.val = "OFF"

\* C10: async_enable_away_mode_by_calendar makes exactly one handle call,
\* forwarding end and away_temperature unchanged and, as start, the given
\* start or, when none is given, the clock at the call minus 10 minutes.
C10_AwayByCalendar ==
    [][(req' # req /\ req'.op = "async_enable_away_mode_by_calendar") =>
          calls' = Append(calls,
                     [method |-> "enable_away_mode_by_calendar",
                      start |-> IF req'.start = <<>> THEN clock - 10
                                ELSE req'.start[1],
                      end |-> req'.end,
                      away_temperature |-> req'.away_temperature])]_vars

C10_Witness ==
    /\ req.op = "async_enable_away_mode_by_calendar"
    /\ req.start = <<>>
    /\ clock = 1
    /\ Len(calls) = 2
    /\ calls[1].start = 50
    /\ calls[2].start = -9

====
